---- MODULE Spec2Model ----
(***************************************************************************)
(* RecipeProject: the ingredient comparison helper                         *)
(* (client/src/utils/compareIngredients.js) and the recipe CRUD routes     *)
(* (routes/recipeRoutes.js), as state machines.                            *)
(*                                                                         *)
(* JavaScript values that may be absent are modelled as sequences of at    *)
(* most one element: <<>> is undefined/null, <<v>> is the value v.  Two    *)
(* absent values are equal, as undefined === undefined is in JavaScript.   *)
(***************************************************************************)
EXTENDS Integers, Sequences, FiniteSets, TLC

VARIABLES
  recipe1,      \* the object passed as compareIngredients' first argument
  recipe2,      \* the object passed as its second argument
  outcome,      \* how the last call ended: a returned array or a thrown TypeError
  prevOutcome,  \* how the call before the last one ended
  console,      \* what console.log has written so far
  calls,        \* the number of calls made on recipe1, recipe2
  store,        \* the Recipe collection: _id -> document
  nextId,       \* the number of ObjectIds handed out so far, plus one
  dbUp,         \* whether the MongoDB connection is usable
  request,      \* the last HTTP request the router handled
  response      \* the response it sent

matchVars == <<recipe1, recipe2, outcome, prevOutcome, console, calls>>
routeVars == <<store, nextId, dbUp, request, response>>
vars == <<recipe1, recipe2, outcome, prevOutcome, console, calls,
          store, nextId, dbUp, request, response>>

\* ------------------------------------------------------------- bounds
MaxLen == 3
MaxCalls == 2
MaxIds == 3

\* ------------------------------------------------------- JavaScript values
Undefined == <<>>
Null == <<>>
Def(v) == <<v>>
Val(o) == o[1]

Range(s) == {s[i] : i \in 1..Len(s)}

\* ------------------------------------------------------------ ingredients
Ingredient(n, a, u) == [name |-> n, amount |-> a, unit |-> u]

\* Ingredient objects a caller may pass: the schema's three fields, each
\* possibly missing on a plain JavaScript object.
IngredientPool ==
  { Ingredient(Def("salt"), Def(5), Def("g")),
    Ingredient(Def("salt"), Def(3), Def("tsp")),
    Ingredient(Def("Salt"), Def(5), Undefined),
    Ingredient(Undefined, Def(3), Def("g")) }

IngredientLists == UNION {[1..n -> IngredientPool] : n \in 0..MaxLen}

RecipeOf(ings) == Def([ingredients |-> Def(ings)])
RecipeWithoutIngredients == Def([ingredients |-> Undefined])

NameOnly(n) == Ingredient(Def(n), Undefined, Undefined)
SampleRecipe1 == RecipeOf(<<NameOnly("spaghetti"), NameOnly("cheese"), NameOnly("eggs")>>)
SampleRecipe2 == RecipeOf(<<NameOnly("cheese"), NameOnly("tomato"), NameOnly("eggs")>>)

Recipes ==
  {RecipeOf(l) : l \in IngredientLists}
    \cup {Null, RecipeWithoutIngredients, SampleRecipe1, SampleRecipe2}

\* -------------------------------------------------------- compareIngredients
TypeError == [threw |-> TRUE, value |-> <<>>]
Return(v) == [threw |-> FALSE, value |-> v]

Lower(str) == IF str = "Salt" THEN "salt" ELSE str

\* Variant: a.toLowerCase() === b.toLowerCase(), a case-insensitive comparison.
LooseEquals(a, b) ==
  (IF a = Undefined THEN a ELSE Def(Lower(Val(a))))
    = (IF b = Undefined THEN b ELSE Def(Lower(Val(b))))

\* a === b
StrictEquals(a, b) == a = b

\* Variant: recipe2.ingredients.every(...) in place of .some(...).
every(r2, ingredient) ==
  IF r2 = Null THEN [threw |-> TRUE, holds |-> FALSE]
  ELSE IF Val(r2).ingredients = Undefined THEN [threw |-> TRUE, holds |-> FALSE]
  ELSE LET ings == Val(Val(r2).ingredients)
       IN [threw |-> FALSE,
           holds |-> \A i \in 1..Len(ings) : StrictEquals(ings[i].name, ingredient.name)]

\* recipe2.ingredients.some((ing) => ing.name === ingredient.name), evaluated
\* inside filter's callback: reading .ingredients of null/undefined, or calling
\* .some on undefined, throws.
some(r2, ingredient) ==
  IF r2 = Null THEN [threw |-> TRUE, holds |-> FALSE]
  ELSE IF Val(r2).ingredients = Undefined THEN [threw |-> TRUE, holds |-> FALSE]
  ELSE LET ings == Val(Val(r2).ingredients)
       IN [threw |-> FALSE,
           holds |-> \E i \in 1..Len(ings) : StrictEquals(ings[i].name, ingredient.name)]

\* Variant: a filter that drops an element already kept (deduplication).
RECURSIVE filterDedup(_, _)
filterDedup(ings, r2) ==
  IF ings = <<>> THEN Return(<<>>)
  ELSE LET t == some(r2, Head(ings))
       IN IF t.threw THEN TypeError
          ELSE LET rest == filterDedup(Tail(ings), r2)
               IN IF rest.threw THEN TypeError
                  ELSE Return(IF t.holds /\ Head(ings) \notin Range(rest.value)
                                THEN <<Head(ings)>> \o rest.value
                                ELSE rest.value)

\* Variant: for each matching ingredient of the first recipe, the entry of the
\* second recipe it matched (recipe2.ingredients.find(...)) is collected.
RECURSIVE filterFromSecond(_, _)
filterFromSecond(ings, r2) ==
  IF ings = <<>> THEN Return(<<>>)
  ELSE LET t == some(r2, Head(ings))
       IN IF t.threw THEN TypeError
          ELSE LET rest == filterFromSecond(Tail(ings), r2)
               IN IF rest.threw THEN TypeError
                  ELSE IF ~t.holds THEN rest
                  ELSE LET l2 == Val(Val(r2).ingredients)
                           j == CHOOSE k \in 1..Len(l2) :
                                  /\ StrictEquals(l2[k].name, Head(ings).name)
                                  /\ \A m \in 1..(k - 1) :
                                        ~StrictEquals(l2[m].name, Head(ings).name)
                       IN Return(<<l2[j]>> \o rest.value)

\* array.filter(callback): a new array of the elements the callback accepts, in
\* order; the callback runs once per element and its exception ends the call.
RECURSIVE filter(_, _)
filter(ings, r2) ==
  IF ings = <<>> THEN Return(<<>>)
  ELSE LET t == some(r2, Head(ings))
       IN IF t.threw THEN TypeError
          ELSE LET rest == filter(Tail(ings), r2)
               IN IF rest.threw THEN TypeError
                  ELSE Return(IF t.holds THEN <<Head(ings)>> \o rest.value
                                         ELSE rest.value)

LogEntry(v) == [label |-> "Common ingredients:", value |-> v]

Reverse(l) == [i \in 1..Len(l) |-> l[Len(l) + 1 - i]]

\* Variant: recipe1.ingredients.reverse().filter(...), which reverses the
\* caller's array in place.
compareIngredientsReversing(r1, r2, con) ==
  LET rev == IF r1 = Null \/ Val(r1).ingredients = Undefined THEN r1
             ELSE Def([ingredients |-> Def(Reverse(Val(Val(r1).ingredients)))])
      common ==
        IF r1 = Null THEN TypeError
        ELSE IF Val(r1).ingredients = Undefined THEN TypeError
        ELSE filter(Val(Val(rev).ingredients), r2)
  IN [outcome |-> common,
      recipe1 |-> IF common.threw THEN r1 ELSE rev,
      recipe2 |-> r2,
      console |-> IF common.threw THEN con ELSE Append(con, LogEntry(common.value))]

\* Variant: every entry of recipe2 that matched is spliced out of recipe2's
\* array, so that it is not matched twice.
compareIngredientsConsuming(r1, r2, con) ==
  LET common ==
        IF r1 = Null THEN TypeError
        ELSE IF Val(r1).ingredients = Undefined THEN TypeError
        ELSE filter(Val(Val(r1).ingredients), r2)
      keep(b) == \A i \in 1..Len(common.value) : ~StrictEquals(b.name, common.value[i].name)
  IN [outcome |-> common,
      recipe1 |-> r1,
      recipe2 |-> IF common.threw \/ common.value = <<>> THEN r2
                  ELSE Def([ingredients |-> Def(SelectSeq(Val(Val(r2).ingredients), keep))]),
      console |-> IF common.threw THEN con ELSE Append(con, LogEntry(common.value))]

\* The whole call: the outcome and the state of everything it can reach
\* afterwards (both argument objects and the console).
compareIngredients(r1, r2, con) ==
  LET common ==
        IF r1 = Null THEN TypeError
        ELSE IF Val(r1).ingredients = Undefined THEN TypeError
        ELSE filter(Val(Val(r1).ingredients), r2)
  IN [outcome |-> common,
      recipe1 |-> r1,
      recipe2 |-> r2,
      console |-> IF common.threw THEN con ELSE Append(con, LogEntry(common.value))]

NoOutcome == Return(<<>>)

InitMatch ==
  /\ recipe1 \in Recipes
  /\ recipe2 \in Recipes
  /\ outcome = NoOutcome
  /\ prevOutcome = NoOutcome
  /\ console = <<>>
  /\ calls = 0

Call ==
  /\ calls < MaxCalls
  /\ LET r == compareIngredients(recipe1, recipe2, console)
     IN /\ outcome' = r.outcome
        /\ recipe1' = r.recipe1
        /\ recipe2' = r.recipe2
        /\ console' = r.console
  /\ prevOutcome' = outcome
  /\ calls' = calls + 1
  /\ UNCHANGED routeVars

\* ------------------------------------------------------------ Recipe model
\* Only the schema's two required top-level paths, title and instructions,
\* are carried by the documents of the route model.
MaxTitleLen == 100
LongTitle == "a title of 101 characters"
NotAString == "[object Object]"
TitleLength(t) == IF t = LongTitle THEN MaxTitleLen + 1 ELSE 4

\* Request bodies: each path present or not; title possibly a value that
\* cannot be cast to String.
Bodies ==
  [title : {Undefined, Def("Soup"), Def(LongTitle), Def(NotAString)},
   instructions : {Undefined, Def("boil")}]

\* req.params.id: a string that casts to an ObjectId (oid), or one that does not.
\* ObjectId MaxIds + 1 is well formed and never handed out.
MalformedId == [valid |-> FALSE, oid |-> 0]
IdParams == {[valid |-> TRUE, oid |-> i] : i \in 1..(MaxIds + 1)} \cup {MalformedId}

NoBody == [title |-> Undefined, instructions |-> Undefined]
Response(st, msg, b) == [status |-> st, message |-> msg, body |-> b]

DocsById(st, id) == {d \in st : id.valid /\ d._id = id.oid}

\* The documents of a collection as an array, in _id (insertion) order.
RECURSIVE AsArray(_)
AsArray(st) ==
  IF st = {} THEN <<>>
  ELSE LET first == CHOOSE d \in st : \A e \in st : d._id <= e._id
       IN <<first>> \o AsArray(st \ {first})

\* Schema validation on save: title required, a String, at most 100
\* characters; instructions required.
Validates(body) ==
  /\ body.title # Undefined
  /\ body.title # Def(NotAString)
  /\ TitleLength(Val(body.title)) <= MaxTitleLen
  /\ body.instructions # Undefined

\* await Recipe.find()
find(st, up) ==
  IF ~up THEN [rejected |-> TRUE, docs |-> <<>>]
  ELSE [rejected |-> FALSE, docs |-> AsArray(st)]

\* new Recipe(req.body) and await newRecipe.save()
save(st, up, oid, body) ==
  IF ~up \/ ~Validates(body) THEN [rejected |-> TRUE, doc |-> Null, store |-> st]
  ELSE LET doc == [_id |-> oid, title |-> body.title, instructions |-> body.instructions]
       IN [rejected |-> FALSE, doc |-> Def(doc), store |-> st \cup {doc}]

\* The update document applied to a stored document: the paths the body
\* carries are set, the others kept; no validators run on an update.
Updated(doc, body) ==
  [doc EXCEPT !.title = IF body.title = Undefined THEN @ ELSE body.title,
              !.instructions = IF body.instructions = Undefined THEN @
                               ELSE body.instructions]

\* Variant: findByIdAndUpdate with { new: true, upsert: true }, which inserts
\* a document when none has the id.
findByIdAndUpsert(st, up, id, body) ==
  IF ~up \/ ~id.valid \/ body.title = Def(NotAString)
    THEN [rejected |-> TRUE, doc |-> Null, store |-> st]
  ELSE IF DocsById(st, id) = {}
    THEN LET doc == [_id |-> id.oid, title |-> body.title,
                     instructions |-> body.instructions]
         IN [rejected |-> FALSE, doc |-> Def(doc), store |-> st \cup {doc}]
  ELSE LET old == CHOOSE d \in DocsById(st, id) : TRUE
           new == Updated(old, body)
       IN [rejected |-> FALSE, doc |-> Def(new), store |-> (st \ {old}) \cup {new}]

\* await Recipe.findByIdAndUpdate(req.params.id, req.body, { new: true }):
\* rejects with a CastError for an id or a value that cannot be cast and when
\* the database cannot be reached; resolves to null when no document has the
\* id; otherwise applies the update and resolves to the updated document.
findByIdAndUpdate(st, up, id, body) ==
  IF ~up \/ ~id.valid \/ body.title = Def(NotAString)
    THEN [rejected |-> TRUE, doc |-> Null, store |-> st]
  ELSE IF DocsById(st, id) = {}
    THEN [rejected |-> FALSE, doc |-> Null, store |-> st]
  ELSE LET old == CHOOSE d \in DocsById(st, id) : TRUE
           new == Updated(old, body)
       IN [rejected |-> FALSE, doc |-> Def(new), store |-> (st \ {old}) \cup {new}]

\* await Recipe.findByIdAndDelete(req.params.id)
findByIdAndDelete(st, up, id) ==
  IF ~up \/ ~id.valid THEN [rejected |-> TRUE, doc |-> Null, store |-> st]
  ELSE IF DocsById(st, id) = {}
    THEN [rejected |-> FALSE, doc |-> Null, store |-> st]
  ELSE LET old == CHOOSE d \in DocsById(st, id) : TRUE
       IN [rejected |-> FALSE, doc |-> Def(old), store |-> st \ {old}]

\* ----------------------------------------------------------------- routes
NoRequest == [method |-> "NONE", id |-> MalformedId, body |-> NoBody]
NoResponse == Response(0, "", <<>>)

InitRoutesIdle ==
  /\ store = {}
  /\ nextId = 1
  /\ dbUp = TRUE
  /\ request = NoRequest
  /\ response = NoResponse

\* router.get("/recipes")
GetRecipes ==
  /\ request' = [method |-> "GET", id |-> MalformedId, body |-> NoBody]
  /\ LET r == find(store, dbUp)
     IN response' = IF r.rejected THEN Response(500, "Error fetching recipes", <<>>)
                    ELSE Response(200, "", r.docs)
  /\ UNCHANGED <<store, nextId, dbUp>>
  /\ UNCHANGED matchVars

\* router.post("/recipes")
PostRecipe(body) ==
  /\ LET r == save(store, dbUp, nextId, body)
     IN /\ r.rejected \/ nextId <= MaxIds
        /\ store' = r.store
        /\ nextId' = IF r.rejected THEN nextId ELSE nextId + 1
        /\ response' = IF r.rejected THEN Response(400, "Error saving recipe", <<>>)
                       ELSE Response(201, "", <<Val(r.doc)>>)
  /\ request' = [method |-> "POST", id |-> MalformedId, body |-> body]
  /\ UNCHANGED dbUp
  /\ UNCHANGED matchVars

\* router.put("/recipes/:id")
PutRecipe(id, body) ==
  /\ LET r == findByIdAndUpdate(store, dbUp, id, body)
     IN /\ store' = r.store
        /\ response' = IF r.rejected THEN Response(400, "Error updating recipe", <<>>)
                       ELSE IF r.doc = Null THEN Response(404, "Recipe not found", <<>>)
                       ELSE Response(200, "", <<Val(r.doc)>>)
  /\ request' = [method |-> "PUT", id |-> id, body |-> body]
  /\ UNCHANGED <<nextId, dbUp>>
  /\ UNCHANGED matchVars

\* router.delete("/recipes/:id")
DeleteRecipe(id) ==
  /\ LET r == findByIdAndDelete(store, dbUp, id)
     IN /\ store' = r.store
        /\ response' = IF r.rejected THEN Response(500, "Error deleting recipe", <<>>)
                       ELSE IF r.doc = Null THEN Response(404, "Recipe not found", <<>>)
                       ELSE Response(204, "", <<>>)
  /\ request' = [method |-> "DELETE", id |-> id, body |-> NoBody]
  /\ UNCHANGED <<nextId, dbUp>>
  /\ UNCHANGED matchVars

\* The connection to MongoDB is lost or comes back.
ConnectionChange ==
  /\ dbUp' = ~dbUp
  /\ UNCHANGED <<store, nextId, request, response>>
  /\ UNCHANGED matchVars

\* ------------------------------------------------------------ specifications
Init == InitMatch /\ InitRoutesIdle

Next == Call

Spec == Init /\ [][Next]_vars

InitRoutes ==
  /\ recipe1 = SampleRecipe1
  /\ recipe2 = SampleRecipe2
  /\ outcome = NoOutcome
  /\ prevOutcome = NoOutcome
  /\ console = <<>>
  /\ calls = 0
  /\ InitRoutesIdle

NextRoutes ==
  \/ GetRecipes
  \/ \E body \in Bodies : PostRecipe(body)
  \/ \E id \in IdParams, body \in Bodies : PutRecipe(id, body)
  \/ \E id \in IdParams : DeleteRecipe(id)
  \/ ConnectionChange

SpecRoutes == InitRoutes /\ [][NextRoutes]_vars

\* ------------------------------------------------- claims: compareIngredients
Called == calls >= 1
HasList(r) == r # Null /\ Val(r).ingredients # Undefined
ListOf(r) == Val(Val(r).ingredients)
WellFormed(r) == HasList(r) /\ \A i \in 1..Len(ListOf(r)) : ListOf(r)[i].name # Undefined

Salt5 == Ingredient(Def("salt"), Def(5), Def("g"))
Salt3 == Ingredient(Def("salt"), Def(3), Def("tsp"))
CapSalt == Ingredient(Def("Salt"), Def(5), Undefined)
Nameless == Ingredient(Undefined, Def(3), Def("g"))

\* C1: for recipes whose ingredients all carry a name, the call returns, and
\* an ingredient of the first recipe is in the result if and only if its name
\* is strictly equal to the name of some ingredient of the second recipe.
C1_MatchIffNameInSecond ==
  (Called /\ WellFormed(recipe1) /\ WellFormed(recipe2)) =>
    /\ ~outcome.threw
    /\ Range(outcome.value) =
         {a \in Range(ListOf(recipe1)) :
            \E b \in Range(ListOf(recipe2)) : a.name = b.name}

\* The source's sample call: [spaghetti, cheese, eggs] against
\* [cheese, tomato, eggs] gives [cheese, eggs].
C1_Witness ==
  /\ Called
  /\ recipe1 = SampleRecipe1
  /\ recipe2 = SampleRecipe2
  /\ outcome = Return(<<NameOnly("cheese"), NameOnly("eggs")>>)

\* C2: the result is the first recipe's list restricted to the entries that
\* occur in the result: same relative order, every occurrence retained.
C2_SubsequenceKeepsDuplicates ==
  (Called /\ HasList(recipe1) /\ HasList(recipe2)) =>
    /\ ~outcome.threw
    /\ outcome.value =
         SelectSeq(ListOf(recipe1), LAMBDA a : a \in Range(outcome.value))

\* [salt, salt, Salt] against [salt] gives [salt, salt].
C2_Witness ==
  /\ Called
  /\ recipe1 = RecipeOf(<<Salt5, Salt5, CapSalt>>)
  /\ recipe2 = RecipeOf(<<Salt3>>)
  /\ outcome = Return(<<Salt5, Salt5>>)

\* C3 (as claimed): with both recipes present, a recipe without an ingredients
\* field counts as an empty list: the call returns an empty array.
C3_MissingIngredientsIsEmpty ==
  (Called /\ recipe1 # Null /\ recipe2 # Null
     /\ (~HasList(recipe1) \/ ~HasList(recipe2))) =>
    outcome = Return(<<>>)

\* C4 (as claimed): no entry without a name is ever in the result, an entry of
\* the second recipe without a name makes nothing match, and nothing is thrown.
C4_NamelessNeverMatches ==
  (Called /\ HasList(recipe1) /\ HasList(recipe2)) =>
    /\ ~outcome.threw
    /\ \A i \in 1..Len(outcome.value) :
         /\ outcome.value[i].name # Undefined
         /\ \E b \in Range(ListOf(recipe2)) :
              b.name # Undefined /\ b.name = outcome.value[i].name

\* C5 (as claimed): a null/undefined recipe argument, first or second,
\* whatever the other one holds, ends the call in an error and never in a result.
C5_AbsentRecipeIsError ==
  (Called /\ (recipe1 = Null \/ recipe2 = Null)) => outcome.threw

\* C6 (as claimed): a call changes neither argument nor the console.
C6_NoSideEffects ==
  [][recipe1' = recipe1 /\ recipe2' = recipe2 /\ console' = console]_matchVars

\* C6 (amended): a call changes neither argument; a call that returns appends
\* exactly one entry, the label "Common ingredients:" with the returned array,
\* to the console, and a call that throws writes nothing.
C6_OnlyEffectIsOneLogLine ==
  [][/\ recipe1' = recipe1
     /\ recipe2' = recipe2
     /\ console' = IF outcome'.threw THEN console
                   ELSE Append(console, LogEntry(outcome'.value))]_matchVars

C6_Witness ==
  /\ calls = 2
  /\ ~outcome.threw
  /\ Len(outcome.value) >= 2
  /\ console = <<LogEntry(outcome.value), LogEntry(outcome.value)>>

\* C7: if the first recipe's list is empty the call returns an empty array
\* whatever the second argument is, and if the second recipe's list is empty
\* it returns an empty array for every first recipe that has a list.
C7_EmptyInputLaw ==
  (Called /\ HasList(recipe1)
     /\ (ListOf(recipe1) = <<>> \/ (HasList(recipe2) /\ ListOf(recipe2) = <<>>))) =>
    outcome = Return(<<>>)

C7_Witness ==
  /\ Called
  /\ HasList(recipe1)
  /\ Len(ListOf(recipe1)) >= 2
  /\ recipe2 = RecipeOf(<<>>)
  /\ outcome = Return(<<>>)

\* C8: every element of the result is an entry of the first recipe, with that
\* entry's own amount and unit.
C8_ElementsComeFromFirst ==
  (Called /\ ~outcome.threw) =>
    \A i \in 1..Len(outcome.value) : outcome.value[i] \in Range(ListOf(recipe1))

\* salt@5 against salt@3 gives salt@5, and the swapped call gives salt@3.
C8_Witness ==
  /\ Called
  /\ recipe1 = RecipeOf(<<Salt5>>)
  /\ recipe2 = RecipeOf(<<Salt3>>)
  /\ outcome = Return(<<Salt5>>)
  /\ compareIngredients(recipe2, recipe1, console).outcome = Return(<<Salt3>>)

\* C9: a second call on the same two objects ends as the first one did.
C9_RepeatedCallsAgree ==
  calls >= 2 => outcome = prevOutcome

C9_Witness ==
  /\ calls >= 2
  /\ ~outcome.threw
  /\ Len(outcome.value) >= 2
  /\ outcome = prevOutcome

\* ------------------------------------------------------- claims: CRUD routes
HandledStep(m) == dbUp' = dbUp /\ request'.method = m
Stored(id) == DocsById(store, id)
NotFound == Response(404, "Recipe not found", <<>>)

\* What the claim says of a PUT or DELETE whose id is not in the store, of a
\* DELETE of a stored id and of a PUT of a stored id.
PutDeleteAsClaimed ==
  /\ (HandledStep("PUT") /\ Stored(request'.id) = {}) =>
       (response' = NotFound /\ store' = store)
  /\ (HandledStep("DELETE") /\ Stored(request'.id) = {}) =>
       (response' = NotFound /\ store' = store)
  /\ (HandledStep("DELETE") /\ Stored(request'.id) # {}) =>
       (response' = Response(204, "", <<>>) /\ store' = store \ Stored(request'.id))
  /\ (HandledStep("PUT") /\ Stored(request'.id) # {}) =>
       \E old \in Stored(request'.id) :
         /\ response' = Response(200, "", <<Updated(old, request'.body)>>)
         /\ store' = (store \ {old}) \cup {Updated(old, request'.body)}

\* The Mongoose call of the handler rejects: the database is unreachable, the
\* id does not cast to an ObjectId, or (PUT) a value of the body does not cast.
CallRejects ==
  \/ ~dbUp
  \/ ~request'.id.valid
  \/ (request'.method = "PUT" /\ request'.body.title = Def(NotAString))

\* C10 (as claimed): after any sequence of requests, PUT and DELETE of an id
\* not in the store respond 404 "Recipe not found" and leave the store
\* unchanged, DELETE of a stored id responds 204 and removes exactly that
\* recipe, PUT of a stored id responds 200 with the updated recipe.
C10_PutDeleteAlways ==
  [][PutDeleteAsClaimed]_routeVars

\* C10 (amended): the same whenever the handler's Mongoose call does not
\* reject; when it rejects, PUT responds 400 "Error updating recipe" and
\* DELETE responds 500 "Error deleting recipe".
C10_PutDeleteUnlessRejected ==
  [][/\ ~CallRejects => PutDeleteAsClaimed
     /\ (CallRejects /\ HandledStep("PUT")) =>
          response' = Response(400, "Error updating recipe", <<>>)
     /\ (CallRejects /\ HandledStep("DELETE")) =>
          response' = Response(500, "Error deleting recipe", <<>>)]_routeVars

\* A PUT of a well-formed id that is not stored was answered 404 while other
\* recipes are stored.
C10_Witness ==
  /\ request.method = "PUT"
  /\ request.id.valid
  /\ DocsById(store, request.id) = {}
  /\ Cardinality(store) >= 2
  /\ dbUp
  /\ response = NotFound

====
